---- MODULE Spec2Model ----
(***************************************************************************)
(* A model of lib/loader/JSLoader.js: the loader's construction, the       *)
(* ingestion of one source file (loadFromSource and the stages it chains   *)
(* through callbacks), the fold of the javelinsymbols output, and the      *)
(* post-process pass that resolves relative requires.                      *)
(*                                                                         *)
(* A JavaScript string is a sequence of one-character strings, so that     *)
(* split, substr, replace and + are modelled by what they do.  An array    *)
(* is a sequence.  An object used as a key set (defines, requires,         *)
(* options) is the sequence of its keys in insertion order, which is the   *)
(* order Object.keys reports.                                              *)
(***************************************************************************)
EXTENDS Integers, Sequences, FiniteSets, TLC

\* ------------------------------------------------------------------ bounds

\* The longest docblock (number of tag/value pairs) an ingestion is given.
MaxTags == 2
\* The most lines of classifier output an ingestion of the pipeline is given.
MaxOutLines == 1
\* The most lines of classifier output the fold alone is given.
MaxLines == 2
\* The longest requiredModules list of a resource handed to postProcess.
MaxReqs == 2
\* The most postProcess passes run over one build.
MaxRuns == 2

\* ----------------------------------------------------------------- strings

\* The value of a missing optional field (null / undefined); no string equals it.
Absent == <<"absent">>

IsWs(c) == c \in {" ", "\t", "\n"}
IsDigit(c) == c \in {"0", "1", "2", "3", "4", "5", "6", "7", "8", "9"}

\* 'undefined', as string concatenation renders an undefined value.
UndefinedStr == <<"u", "n", "d", "e", "f", "i", "n", "e", "d">>
JXPrefix == <<"J", "X", ".">>
BehaviorPrefix ==
  <<"j", "a", "v", "e", "l", "i", "n", "-", "b", "e", "h", "a", "v", "i", "o", "r", "-">>
LegacyPrefix == <<"l", "e", "g", "a", "c", "y", ":">>
JXInstall == JXPrefix \o <<"i", "n", "s", "t", "a", "l", "l">>
JXBehavior == JXPrefix \o <<"b", "e", "h", "a", "v", "i", "o", "r">>
IgnoreKey == <<"i", "g", "n", "o", "r", "e">>

\* s.substr(1)
Substr1(s) == IF Len(s) <= 1 THEN <<>> ELSE SubSeq(s, 2, Len(s))

\* s.split(/\s+/): the pieces between maximal runs of whitespace.
RECURSIVE SplitWsFrom(_, _, _, _)
SplitWsFrom(s, i, cur, prevWs) ==
  IF i > Len(s) THEN <<cur>>
  ELSE IF IsWs(s[i])
       THEN IF prevWs THEN SplitWsFrom(s, i + 1, cur, TRUE)
            ELSE <<cur>> \o SplitWsFrom(s, i + 1, <<>>, TRUE)
       ELSE SplitWsFrom(s, i + 1, Append(cur, s[i]), FALSE)
SplitWs(s) == SplitWsFrom(s, 1, <<>>, FALSE)

\* s.split(sep) for a one-character separator: every occurrence separates.
RECURSIVE SplitCharFrom(_, _, _, _)
SplitCharFrom(s, sep, i, cur) ==
  IF i > Len(s) THEN <<cur>>
  ELSE IF s[i] = sep
       THEN <<cur>> \o SplitCharFrom(s, sep, i + 1, <<>>)
       ELSE SplitCharFrom(s, sep, i + 1, Append(cur, s[i]))
SplitChar(s, sep) == SplitCharFrom(s, sep, 1, <<>>)

\* The number of digits s ends with.
RECURSIVE TrailingDigits(_)
TrailingDigits(s) ==
  IF s = <<>> \/ ~IsDigit(s[Len(s)]) THEN 0
  ELSE 1 + TrailingDigits(SubSeq(s, 1, Len(s) - 1))

\* line.replace(/:\d+$/, ''): drops a ':' followed by one or more digits at the end.
StripLineNumber(line) ==
  LET k == TrailingDigits(line) IN
  IF k >= 1 /\ Len(line) > k /\ line[Len(line) - k] = ":"
  THEN SubSeq(line, 1, Len(line) - k - 1)
  ELSE line

\* Whether array a holds x.
Has(a, x) == \E i \in 1..Len(a) : a[i] = x
\* obj[k] = true on a key set: a new key goes last, a present key keeps its place.
SetKey(obj, k) == IF Has(obj, k) THEN obj ELSE Append(obj, k)
\* delete obj[k]
RECURSIVE DeleteKey(_, _)
DeleteKey(obj, k) ==
  IF obj = <<>> THEN <<>>
  ELSE IF Head(obj) = k THEN DeleteKey(Tail(obj), k)
  ELSE <<Head(obj)>> \o DeleteKey(Tail(obj), k)

\* All sequences over S of length at most n.
RECURSIVE SeqsUpTo(_, _)
SeqsUpTo(S, n) ==
  IF n = 0 THEN {<<>>}
  ELSE LET shorter == SeqsUpTo(S, n - 1) IN
       shorter \cup {Append(q, x) : q \in {p \in shorter : Len(p) = n - 1}, x \in S}

\* -------------------------------------------------------------- descriptor

\* new JS(path): the empty descriptor (lib/resource/JS.js is not among the
\* sources; the defaults are those of the data model).
NewJS(path) ==
  [path |-> path,
   id |-> Absent,
   isModule |-> FALSE,
   isLegacy |-> FALSE,
   isRunWhenReady |-> FALSE,
   isJavelin |-> FALSE,
   isPolyfill |-> FALSE,
   isPermanent |-> FALSE,
   isNopackage |-> FALSE,
   isJSXEnabled |-> FALSE,
   jsxDOMImplementor |-> Absent,
   requiredModules |-> <<>>,
   requiredLegacyComponents |-> <<>>,
   requiredCSS |-> <<>>,
   options |-> <<>>,
   definedJavelinSymbols |-> Absent,
   requiredJavelinSymbols |-> Absent,
   networkSize |-> <<>>]

\* JavaScript truthiness of a string-or-missing value: null and '' are falsy.
Truthy(v) == v # Absent /\ v # <<>>

\* value.split(/\s+/).forEach(function(key) { js.options[key] = true; })
RECURSIVE SetKeys(_, _)
SetKeys(obj, keys) ==
  IF keys = <<>> THEN obj ELSE SetKeys(SetKey(obj, Head(keys)), Tail(keys))

\* One iteration of the props.forEach of parseDocblockOptions: the switch on
\* the tag name.
ApplyTagJsx(js, value) ==
  [js EXCEPT !.isJSXEnabled = TRUE,
             !.jsxDOMImplementor = value,
             !.requiredModules = IF Truthy(value) THEN Append(@, value) ELSE @]

\* The switch as it would be if the javelin case set the id as the provides
\* cases do.
ApplyTagJavelinId(js, pair) ==
  LET name == pair[1]
      value == pair[2]
  IN CASE name = "provides" ->
            [js EXCEPT !.isModule = FALSE, !.id = SplitWs(value)[1]]
       [] name = "providesModule" ->
            [js EXCEPT !.isModule = TRUE, !.id = SplitWs(value)[1]]
       [] name = "providesLegacy" ->
            [js EXCEPT !.isRunWhenReady = TRUE, !.isLegacy = TRUE, !.isModule = TRUE,
                       !.id = LegacyPrefix \o SplitWs(value)[1]]
       [] name = "css" ->
            [js EXCEPT !.requiredCSS = @ \o SplitWs(value)]
       [] name = "requires" ->
            [js EXCEPT !.requiredLegacyComponents = @ \o SplitWs(value)]
       [] name = "javelin" ->
            [js EXCEPT !.isModule = TRUE, !.isJavelin = TRUE, !.isRunWhenReady = TRUE,
                       !.id = SplitWs(value)[1]]
       [] name = "polyfill" ->
            [js EXCEPT !.isPolyfill = TRUE]
       [] name = "runWhenReady_DEPRECATED" ->
            [js EXCEPT !.isRunWhenReady = TRUE]
       [] name = "jsx" -> ApplyTagJsx(js, value)
       [] name = "permanent" ->
            [js EXCEPT !.isPermanent = TRUE]
       [] name = "nopackage" ->
            [js EXCEPT !.isNopackage = TRUE]
       [] name \in {"option", "options"} ->
            [js EXCEPT !.options = SetKeys(@, SplitWs(value))]
       [] OTHER -> js

\* The switch as it would be if the css and requires cases replaced the list
\* instead of concatenating to it.
ApplyTagReplacing(js, pair) ==
  LET name == pair[1]
      value == pair[2]
  IN CASE name = "provides" ->
            [js EXCEPT !.isModule = FALSE, !.id = SplitWs(value)[1]]
       [] name = "providesModule" ->
            [js EXCEPT !.isModule = TRUE, !.id = SplitWs(value)[1]]
       [] name = "providesLegacy" ->
            [js EXCEPT !.isRunWhenReady = TRUE, !.isLegacy = TRUE, !.isModule = TRUE,
                       !.id = LegacyPrefix \o SplitWs(value)[1]]
       [] name = "css" ->
            [js EXCEPT !.requiredCSS = SplitWs(value)]
       [] name = "requires" ->
            [js EXCEPT !.requiredLegacyComponents = SplitWs(value)]
       [] name = "javelin" ->
            [js EXCEPT !.isModule = TRUE, !.isJavelin = TRUE, !.isRunWhenReady = TRUE]
       [] name = "polyfill" ->
            [js EXCEPT !.isPolyfill = TRUE]
       [] name = "runWhenReady_DEPRECATED" ->
            [js EXCEPT !.isRunWhenReady = TRUE]
       [] name = "jsx" -> ApplyTagJsx(js, value)
       [] name = "permanent" ->
            [js EXCEPT !.isPermanent = TRUE]
       [] name = "nopackage" ->
            [js EXCEPT !.isNopackage = TRUE]
       [] name \in {"option", "options"} ->
            [js EXCEPT !.options = SetKeys(@, SplitWs(value))]
       [] OTHER -> js

ApplyTag(js, pair) ==
  LET name == pair[1]
      value == pair[2]
  IN CASE name = "provides" ->
            [js EXCEPT !.isModule = FALSE, !.id = SplitWs(value)[1]]
       [] name = "providesModule" ->
            [js EXCEPT !.isModule = TRUE, !.id = SplitWs(value)[1]]
       [] name = "providesLegacy" ->
            [js EXCEPT !.isRunWhenReady = TRUE, !.isLegacy = TRUE, !.isModule = TRUE,
                       !.id = LegacyPrefix \o SplitWs(value)[1]]
       [] name = "css" ->
            [js EXCEPT !.requiredCSS = @ \o SplitWs(value)]
       [] name = "requires" ->
            [js EXCEPT !.requiredLegacyComponents = @ \o SplitWs(value)]
       [] name = "javelin" ->
            [js EXCEPT !.isModule = TRUE, !.isJavelin = TRUE, !.isRunWhenReady = TRUE]
       [] name = "polyfill" ->
            [js EXCEPT !.isPolyfill = TRUE]
       [] name = "runWhenReady_DEPRECATED" ->
            [js EXCEPT !.isRunWhenReady = TRUE]
       [] name = "jsx" -> ApplyTagJsx(js, value)
       [] name = "permanent" ->
            [js EXCEPT !.isPermanent = TRUE]
       [] name = "nopackage" ->
            [js EXCEPT !.isNopackage = TRUE]
       [] name \in {"option", "options"} ->
            [js EXCEPT !.options = SetKeys(@, SplitWs(value))]
       [] OTHER -> js

\* parseDocblockOptions(js, sourceCode), given the ordered tag/value pairs
\* docblock.parse(docblock.extract(sourceCode)) returns.
RECURSIVE parseDocblockOptions(_, _)
parseDocblockOptions(js, props) ==
  IF props = <<>> THEN js
  ELSE parseDocblockOptions(ApplyTag(js, Head(props)), Tail(props))

\* ------------------------------------------------------ javelin symbol fold

\* One iteration of the forEach of _javelinSymbolsCallback over the accumulator
\* acc = [defines, requires, id].
FoldPlus(acc, line) ==
  LET name == JXPrefix \o Substr1(line) IN
  [defines |-> SetKey(acc.defines, name),
   requires |-> SetKey(DeleteKey(acc.requires, name), JXInstall),
   id |-> name]

\* The '?' case as it would be if the name were the text before the first '.'.
SecondDotPartFirst(line) == Substr1(SplitChar(line, ".")[1])

\* line.split('.')[1], rendered by + : the text between the first and the
\* second '.', 'undefined' when the line has no '.'.
SecondDotPart(line) ==
  LET parts == SplitChar(line, ".") IN
  IF Len(parts) >= 2 THEN parts[2] ELSE UndefinedStr

FoldQuery(acc, line) ==
  LET name == JXPrefix \o SecondDotPart(line) IN
  IF Has(acc.defines, name) THEN acc
  ELSE [acc EXCEPT !.requires = SetKey(@, name)]

\* The '*' case as it would be without js.id = name.
FoldStarKeepsId(acc, line) ==
  LET name == BehaviorPrefix \o Substr1(line) IN
  [defines |-> SetKey(acc.defines, name),
   requires |-> SetKey(DeleteKey(acc.requires, name), JXBehavior),
   id |-> acc.id]

FoldStar(acc, line) ==
  LET name == BehaviorPrefix \o Substr1(line) IN
  [defines |-> SetKey(acc.defines, name),
   requires |-> SetKey(DeleteKey(acc.requires, name), JXBehavior),
   id |-> name]

FoldLine(acc, rawLine) ==
  LET line == StripLineNumber(rawLine) IN
  IF line = <<>> THEN acc
  ELSE CASE line[1] = "+" -> FoldPlus(acc, line)
         [] line[1] = "?" -> FoldQuery(acc, line)
         [] line[1] = "*" -> FoldStar(acc, line)
         [] OTHER -> acc

RECURSIVE FoldLines(_, _)
FoldLines(acc, lines) ==
  IF lines = <<>> THEN acc ELSE FoldLines(FoldLine(acc, Head(lines)), Tail(lines))

\* The descriptor _javelinSymbolsCallback(js, output, callback) hands to callback.
JavelinSymbols(js, output) ==
  LET acc == FoldLines([defines |-> <<>>, requires |-> <<>>, id |-> js.id],
                       SplitChar(output, "\n"))
  IN [js EXCEPT !.id = acc.id,
                !.definedJavelinSymbols = acc.defines,
                !.requiredJavelinSymbols = acc.requires]

\* ------------------------------------------------------------------ loader

\* '/scripts/javelin/javelinsymbols'
DefaultJavelinsymbolsPath ==
  <<"/", "s", "c", "r", "i", "p", "t", "s", "/", "j", "a", "v", "e", "l", "i", "n", "/",
    "j", "a", "v", "e", "l", "i", "n", "s", "y", "m", "b", "o", "l", "s">>

\* new JSLoader(options): the stage sequence is chosen once, from the options.
\* extractExtra is "both", "javelin", "size" or "tick", naming the function the
\* constructor assigns.
JSLoader(options) ==
  LET extractNetworkSize == options.networkSize
      extractJavelin == options.extractJavelin \/ Truthy(options.javelinsymbolsPath)
  IN [options |-> options,
      javelinsymbolsPath |->
        IF Truthy(options.javelinsymbolsPath) THEN options.javelinsymbolsPath
        ELSE DefaultJavelinsymbolsPath,
      extractExtra |->
        IF extractJavelin /\ extractNetworkSize THEN "both"
        ELSE IF extractJavelin THEN "javelin"
        ELSE IF extractNetworkSize THEN "size"
        ELSE "tick"]

\* configuration.resolveID(js.path) (ProjectConfiguration is not among the
\* sources): an identifier determined by the path.
ResolveID(path) == <<"@">> \o path

\* The state of one loadFromSource call:
\*   pending  what the ingestion waits for: "idle" (not called yet), "child"
\*            (the subprocess's exit), "deflate" (zlib's callback), "tick"
\*            (process.nextTick), "none" (nothing);
\*   cont     the callback the pending stage was given: "user" (the caller's)
\*            or "size" (extractNetworkSize bound to js, sourceCode, callback);
\*   js       the descriptor;  args  the call's arguments;
\*   callTurn the turn loadFromSource ran in;
\*   cbs      the invocations of the caller's callback, each with its turn;
\*   log      the stage events, in order;
\*   thrown   an exception escaped a handler;
\*   extractCalls, resolveCalls  the calls of commonjs.extractRequireCalls and
\*            of configuration.resolveID;
\*   exit     what the subprocess did: <<>> before it exits, then its exit
\*            code, the output collected by then, and the descriptor as it was;
\*   output   the variable output of extractJavelinSymbols: what the 'data'
\*            handler has collected;
\*   printed  what the subprocess of this call has written to its stdout;
\*   nData    the number of 'data' events of this call;
\*   atExtra  <<>>, or the descriptor as loadFromSource handed it to extractExtra.
NoArgs == [path |-> <<>>, configuration |-> FALSE, props |-> <<>>, requires |-> <<>>]
IdleCall ==
  [pending |-> "idle", cont |-> "none", js |-> NewJS(<<>>), args |-> NoArgs,
   callTurn |-> 0, cbs |-> <<>>, log |-> <<>>, thrown |-> FALSE,
   extractCalls |-> 0, resolveCalls |-> 0, exit |-> <<>>,
   output |-> <<>>, printed |-> <<>>, nData |-> 0, atExtra |-> <<>>]

\* callback(err, js), callback being the caller's, in turn t.
InvokeUser(m, err, t) ==
  [m EXCEPT !.cbs = Append(@, [err |-> err, js |-> m.js, turn |-> t])]

\* extractNetworkSize(js, sourceCode, callback): zlib.deflate is started.
extractNetworkSize(m, cont) ==
  [m EXCEPT !.pending = "deflate", !.cont = cont, !.log = Append(@, "sizeStart")]

\* The callback of a stage as it would be if the two-stage extractExtra handed
\* extractJavelinSymbols the caller's callback instead of the bound
\* extractNetworkSize.
InvokeContUnbound(m, cont, t) == InvokeUser(m, FALSE, t)

\* A stage calls the callback it was given with (null, js).
InvokeCont(m, cont, t) ==
  IF cont = "size" THEN extractNetworkSize(m, "user") ELSE InvokeUser(m, FALSE, t)

\* extractJavelinSymbols as it would be without the check of js.isJavelin: the
\* subprocess is started for every file.
extractJavelinSymbolsAlways(m, cont, t) ==
  [m EXCEPT !.pending = "child", !.cont = cont,
            !.log = @ \o <<"classifyStart", "spawn">>]

\* extractJavelinSymbols(js, code, callback)
extractJavelinSymbols(m, cont, t) ==
  LET started == [m EXCEPT !.log = Append(@, "classifyStart")] IN
  IF ~m.js.isJavelin
  THEN InvokeCont([started EXCEPT !.log = Append(@, "classifyDone")], cont, t)
  ELSE [started EXCEPT !.pending = "child", !.cont = cont, !.log = Append(@, "spawn")]

\* extractExtra as it would be with the default stage calling back at once,
\* without process.nextTick.
extractExtraHasty(loader, m, t) ==
  CASE loader.extractExtra = "both" -> extractJavelinSymbols(m, "size", t)
    [] loader.extractExtra = "javelin" -> extractJavelinSymbols(m, "user", t)
    [] loader.extractExtra = "size" -> extractNetworkSize(m, "user")
    [] OTHER -> InvokeUser(m, FALSE, t)

\* this.extractExtra(js, sourceCode, callback)
extractExtra(loader, m, t) ==
  CASE loader.extractExtra = "both" -> extractJavelinSymbols(m, "size", t)
    [] loader.extractExtra = "javelin" -> extractJavelinSymbols(m, "user", t)
    [] loader.extractExtra = "size" -> extractNetworkSize(m, "user")
    [] OTHER -> [m EXCEPT !.pending = "tick", !.cont = "user"]

\* The part of loadFromSource after the ignore check as it would be if require
\* calls were extracted for every file, module or not.
ResolveAndExtractAlways(js, args) ==
  [js EXCEPT !.id = IF js.isModule /\ args.configuration /\ ~Truthy(js.id)
                    THEN ResolveID(js.path) ELSE @,
             !.requiredModules = @ \o args.requires]

\* The same part as it would be if the configuration resolved the id of
\* every module, whether or not a tag has set one.
ResolveAndExtractOverriding(js, args) ==
  IF js.isModule
  THEN [js EXCEPT !.id = IF args.configuration THEN ResolveID(js.path) ELSE @,
                  !.requiredModules = @ \o args.requires]
  ELSE js

\* The same part as it would be if the extracted require calls were put before
\* what the jsx tags have given.
ResolveAndExtractPrepending(js, args) ==
  IF js.isModule
  THEN [js EXCEPT !.id = IF args.configuration /\ ~Truthy(js.id)
                         THEN ResolveID(js.path) ELSE @,
                  !.requiredModules = args.requires \o @]
  ELSE js

\* The part of loadFromSource after the ignore check.
ResolveAndExtract(js, args) ==
  IF js.isModule
  THEN [js EXCEPT !.id = IF args.configuration /\ ~Truthy(js.id)
                         THEN ResolveID(js.path) ELSE @,
                  !.requiredModules = @ \o args.requires]
  ELSE js

\* loadFromSource as it would be without the check of js.options.ignore.
loadFromSourceUnchecked(loader, args, t) ==
  LET js0 == NewJS(args.path)
      js1 == IF args.configuration THEN [js0 EXCEPT !.isModule = TRUE] ELSE js0
      js2 == parseDocblockOptions(js1, args.props)
      m0 == [IdleCall EXCEPT !.pending = "none", !.args = args, !.callTurn = t]
  IN extractExtra(
       loader,
       [m0 EXCEPT !.js = ResolveAndExtract(js2, args),
                  !.atExtra = <<ResolveAndExtract(js2, args)>>,
                  !.extractCalls = IF js2.isModule THEN 1 ELSE 0,
                  !.resolveCalls =
                    IF js2.isModule /\ args.configuration /\ ~Truthy(js2.id)
                    THEN 1 ELSE 0],
       t)

\* loadFromSource(path, configuration, sourceCode, callback) in turn t, up to
\* its return.
loadFromSource(loader, args, t) ==
  LET js0 == NewJS(args.path)
      js1 == IF args.configuration THEN [js0 EXCEPT !.isModule = TRUE] ELSE js0
      js2 == parseDocblockOptions(js1, args.props)
      m0 == [IdleCall EXCEPT !.pending = "none", !.args = args, !.callTurn = t]
  IN IF Has(js2.options, IgnoreKey)
     THEN InvokeUser([m0 EXCEPT !.js = js2], FALSE, t)
     ELSE extractExtra(
            loader,
            [m0 EXCEPT !.js = ResolveAndExtract(js2, args),
                       !.atExtra = <<ResolveAndExtract(js2, args)>>,
                       !.extractCalls = IF js2.isModule THEN 1 ELSE 0,
                       !.resolveCalls =
                         IF js2.isModule /\ args.configuration /\ ~Truthy(js2.id)
                         THEN 1 ELSE 0],
            t)

\* The 'data' handler of the subprocess's stdout: output += d.
OnData(m, d) == [m EXCEPT !.output = @ \o d]

\* The 'exit' handler of the subprocess, which reads neither the exit code nor
\* the signal: me._javelinSymbolsCallback(js, output, callback).
OnChildExit(m, code, t) ==
  InvokeCont([m EXCEPT !.pending = "none", !.cont = "none",
                       !.js = JavelinSymbols(m.js, m.output),
                       !.log = Append(@, "classifyDone"),
                       !.exit = <<[code |-> code, output |-> m.output, before |-> m.js]>>],
             m.cont, t)

\* The callback given to zlib.deflate: function(err, buffer).  On an error
\* buffer is undefined and buffer.length throws.
OnDeflate(m, err, size, t) ==
  IF err
  THEN [m EXCEPT !.pending = "none", !.cont = "none", !.thrown = TRUE,
                 !.log = Append(@, "sizeFailed")]
  ELSE InvokeCont([m EXCEPT !.pending = "none", !.cont = "none",
                            !.js.networkSize = <<size>>,
                            !.log = Append(@, "sizeDone")],
                  m.cont, t)

\* The function given to process.nextTick by the default extractExtra.
OnTick(m, t) ==
  InvokeUser([m EXCEPT !.pending = "none", !.cont = "none"], FALSE, t)

\* ------------------------------------------------------------ post-process

\* Node's path.normalize on the segments of a path: '.' and empty segments
\* are dropped, '..' removes the segment before it (and is kept at the start
\* of a relative path).
RECURSIVE NormalizeSegs(_, _, _)
NormalizeSegs(segs, res, isAbsolute) ==
  IF segs = <<>> THEN res
  ELSE LET seg == Head(segs) IN
       IF seg = <<>> \/ seg = <<".">>
       THEN NormalizeSegs(Tail(segs), res, isAbsolute)
       ELSE IF seg = <<".", ".">>
       THEN IF res # <<>> /\ res[Len(res)] # <<".", ".">>
            THEN NormalizeSegs(Tail(segs), SubSeq(res, 1, Len(res) - 1), isAbsolute)
            ELSE IF isAbsolute
            THEN NormalizeSegs(Tail(segs), res, isAbsolute)
            ELSE NormalizeSegs(Tail(segs), Append(res, seg), isAbsolute)
       ELSE NormalizeSegs(Tail(segs), Append(res, seg), isAbsolute)

RECURSIVE JoinSegs(_)
JoinSegs(segs) ==
  IF segs = <<>> THEN <<>>
  ELSE IF Len(segs) = 1 THEN Head(segs)
  ELSE Head(segs) \o <<"/">> \o JoinSegs(Tail(segs))

\* path.normalize(p)
PathNormalize(p) ==
  IF p = <<>> THEN <<".">>
  ELSE LET isAbsolute == p[1] = "/"
           trailing == p[Len(p)] = "/"
           s0 == JoinSegs(NormalizeSegs(SplitChar(p, "/"), <<>>, isAbsolute))
           s1 == IF s0 = <<>> /\ ~isAbsolute THEN <<".">> ELSE s0
           s2 == IF s1 # <<>> /\ trailing THEN Append(s1, "/") ELSE s1
       IN IF isAbsolute THEN <<"/">> \o s2 ELSE s2

\* path.join(a, b)
PathJoin(a, b) ==
  IF a = <<>> /\ b = <<>> THEN <<".">>
  ELSE IF a = <<>> THEN PathNormalize(b)
  ELSE IF b = <<>> THEN PathNormalize(a)
  ELSE PathNormalize(a \o <<"/">> \o b)

\* path.dirname(p)
PathDirname(p) ==
  IF p = <<>> THEN <<".">>
  ELSE LET hasRoot == p[1] = "/"
           nonSlash == {j \in 1..Len(p) : p[j] # "/"}
           last == IF nonSlash = {} THEN 0
                   ELSE CHOOSE j \in nonSlash : \A k \in nonSlash : k <= j
           slashes == {i \in 2..(last - 1) : p[i] = "/"}
       IN IF slashes = {} THEN (IF hasRoot THEN <<"/">> ELSE <<".">>)
          ELSE LET end == CHOOSE i \in slashes : \A k \in slashes : k <= i IN
               IF hasRoot /\ end = 2 THEN <<"/", "/">>
               ELSE SubSeq(p, 1, end - 1)

DotJs == <<".", "j", "s">>
SlashIndexJs == <<"/", "i", "n", "d", "e", "x", ".", "j", "s">>

\* map.getResourceByPath(p) (ResourceMap is not among the sources): the index
\* in the build of the resource whose path is p, 0 when there is none.
getResourceByPath(store, p) ==
  IF \E i \in 1..Len(store) : store[i].path = p
  THEN CHOOSE i \in 1..Len(store) : store[i].path = p
  ELSE 0

\* The lookup as it would be without the directory-index fallback.
ResolveRelativeJsOnly(store, ownerPath, req) ==
  getResourceByPath(store, PathJoin(PathDirname(ownerPath), req) \o DotJs)

\* The resource the body of postProcess's loop finds for the relative entry
\* req of the resource at path ownerPath, 0 when it finds none.
ResolveRelative(store, ownerPath, req) ==
  LET relative == PathJoin(PathDirname(ownerPath), req)
      byJs == getResourceByPath(store, relative \o DotJs)
  IN IF byJs # 0 THEN byJs
     ELSE getResourceByPath(store, relative \o SlashIndexJs)

\* One iteration as it would be without the test of req.charAt(0): every
\* entry is looked up as a relative one.
RewriteEntryUnchecked(store, ownerPath, req) ==
  LET resource == ResolveRelative(store, ownerPath, req) IN
  IF resource = 0 THEN req ELSE store[resource].id

\* One iteration of the for loop: the value of required[i] after it.
RewriteEntry(store, ownerPath, req) ==
  IF req # <<>> /\ req[1] = "."
  THEN LET resource == ResolveRelative(store, ownerPath, req) IN
       IF resource = 0 THEN req ELSE store[resource].id
  ELSE req

\* The loop as it would be with the suppressed logError call in place: logError
\* is not defined, so an unresolved entry throws.
RECURSIVE RewriteFromLogging(_, _, _)
RewriteFromLogging(store, k, i) ==
  IF i > Len(store[k].requiredModules) THEN [store |-> store, thrown |-> FALSE]
  ELSE LET req == store[k].requiredModules[i] IN
       IF req = Absent THEN [store |-> store, thrown |-> TRUE]
       ELSE IF req # <<>> /\ req[1] = "." /\ ResolveRelative(store, store[k].path, req) = 0
       THEN [store |-> store, thrown |-> TRUE]
       ELSE RewriteFromLogging(
              [store EXCEPT ![k].requiredModules[i] = RewriteEntry(store, store[k].path, req)],
              k, i + 1)

\* The loop as it would be if a resolved id were pushed to the list instead of
\* assigned at the index of the entry.
RECURSIVE RewriteFromPushing(_, _, _)
RewriteFromPushing(store, k, i) ==
  IF i > Len(store[k].requiredModules) THEN [store |-> store, thrown |-> FALSE]
  ELSE IF store[k].requiredModules[i] = Absent THEN [store |-> store, thrown |-> TRUE]
  ELSE LET req == store[k].requiredModules[i]
           new == RewriteEntry(store, store[k].path, req)
       IN RewriteFromPushing(
            IF new = req THEN store
            ELSE [store EXCEPT ![k].requiredModules = Append(@, new)],
            k, i + 1)

\* The for loop over r.requiredModules, r being store[k], from index i on; the
\* entries are rewritten in place, one after the other.  req.charAt throws
\* when the entry is not a string (a null id written by an earlier pass).
RECURSIVE RewriteFrom(_, _, _)
RewriteFrom(store, k, i) ==
  IF i > Len(store[k].requiredModules) THEN [store |-> store, thrown |-> FALSE]
  ELSE IF store[k].requiredModules[i] = Absent THEN [store |-> store, thrown |-> TRUE]
  ELSE RewriteFrom(
         [store EXCEPT ![k].requiredModules[i] =
            RewriteEntry(store, store[k].path, store[k].requiredModules[i])],
         k, i + 1)

\* resources.forEach(...): resources is the list of the indexes of the
\* resources handed to postProcess; they are the objects the map holds.
RECURSIVE postProcessLoop(_, _)
postProcessLoop(store, resources) ==
  IF resources = <<>> THEN [store |-> store, thrown |-> FALSE]
  ELSE LET r == RewriteFrom(store, Head(resources), 1) IN
       IF r.thrown THEN r ELSE postProcessLoop(r.store, Tail(resources))


\* --------------------------------------------------------------- matchPath

\* filePath.lastIndexOf(needle): the greatest index, counted from 0, where
\* needle occurs in s, and -1 when it occurs nowhere.
LastIndexOf(s, needle) ==
  LET at == {i \in 0..(Len(s) - Len(needle)) : SubSeq(s, i + 1, i + Len(needle)) = needle}
  IN IF at = {} THEN -1 ELSE CHOOSE i \in at : \A j \in at : j <= i

\* matchPath(filePath)
matchPath(filePath) == LastIndexOf(filePath, DotJs) = Len(filePath) - 3
\* ------------------------------------------------------------------ inputs

\* The ingestions in flight at once.
Calls == {1, 2}

\* Options a loader is constructed with.
LoaderOptions ==
  [networkSize : BOOLEAN, extractJavelin : BOOLEAN,
   javelinsymbolsPath : {Absent, <<"/", "j">>}]

\* Paths of ingested files.
MainPaths == {<<"a", ".", "j", "s">>, <<"d", "/", "b", ".", "j", "s">>}

\* Tag/value pairs of the docblocks of the ingested files.
MainTags ==
  {<<"javelin", <<>>>>,
   <<"option", IgnoreKey>>,
   <<"jsx", <<"D">>>>,
   <<"providesModule", <<"m">>>>,
   <<"providesModule", <<>>>>,
   <<"provides", <<"p", " ", "q">>>>,
   <<"options", <<"a", " ", "i", "g", "n", "o", "r", "e">>>>}

\* Results of commonjs.extractRequireCalls.
MainRequires == {<<>>, <<<<".", "/", "b">>, <<"D">>>>}

\* The arguments of a loadFromSource call: the path, whether a configuration is
\* given, and what the parsers make of sourceCode.
MainArgs ==
  [path : MainPaths, configuration : BOOLEAN,
   props : SeqsUpTo(MainTags, MaxTags), requires : MainRequires]

\* lines joined by "\n"
RECURSIVE JoinLines(_)
JoinLines(lines) ==
  IF lines = <<>> THEN <<>>
  ELSE IF Len(lines) = 1 THEN Head(lines)
  ELSE Head(lines) \o <<"\n">> \o JoinLines(Tail(lines))

\* Lines the classifier prints.
MainLines ==
  {<<"+", "a">>, <<"?", "J", "X", ".", "a", ".", "b", ":", "1">>, <<"*", "m">>, <<"x">>}
\* What one 'data' event of an ingestion carries: a line and its line break.
MainChunks == {l \o <<"\n">> : l \in MainLines}

\* Lengths of the deflated source.
Sizes == {8}

\* Lines for the fold alone: a prefix character and a name, and lines that end
\* with a line number.
FoldNames ==
  {<<>>,
   <<"a">>,
   <<"a", ".", "b">>,
   <<"i", "n", "s", "t", "a", "l", "l">>,
   <<"b", "e", "h", "a", "v", "i", "o", "r">>}
FoldLineSet ==
  {p \o n : p \in {<<"+">>, <<"?">>, <<"*">>, <<"#">>}, n \in FoldNames}
    \cup {p \o <<"a", ".", "b", ":", "1", "2">> : p \in {<<"+">>, <<"?">>, <<"*">>, <<"#">>}}
\* +Widget, ?Other.method, *menu
ExampleOutput ==
  JoinLines(<<<<"+", "W", "i", "d", "g", "e", "t">>,
              <<"?", "O", "t", "h", "e", "r", ".", "m", "e", "t", "h", "o", "d">>,
              <<"*", "m", "e", "n", "u">>>>)
\* ?JX.Stratcom.listen:12, as a reference to a member of a JX unit is printed
QualifiedOutput ==
  <<"?", "J", "X", ".", "S", "t", "r", "a", "t", "c", "o", "m", ".", "l", "i", "s", "t",
    "e", "n", ":", "1", "2">>
\* What one 'data' event carries when the fold alone is looked at: a line and
\* its line break, or a whole output.
FoldChunks == {l \o <<"\n">> : l \in FoldLineSet} \cup {ExampleOutput, QualifiedOutput}
\* Exit codes of the subprocess.
ExitCodes == {0, 1}
\* Docblocks of the javelin files the fold is run for.
FoldArgs ==
  [path : {<<"a", ".", "j", "s">>}, configuration : BOOLEAN,
   props : {<<<<"javelin", <<>>>>>>, <<<<"providesModule", <<"m">>>>, <<"javelin", <<>>>>>>},
   requires : {<<>>}]

\* The build the post-process pass is run on: two files that require others
\* (bar.js, d/bar.js) and two that can be required (foo.js, foo/index.js), each
\* present or not.
BarJs == <<"b", "a", "r", ".", "j", "s">>
DBarJs == <<"d", "/">> \o BarJs
FooJs == <<"f", "o", "o", ".", "j", "s">>
FooIndexJs == <<"f", "o", "o", "/", "i", "n", "d", "e", "x", ".", "j", "s">>
DotFoo == <<".", "/", "f", "o", "o">>
UpFoo == <<".", ".", "/", "f", "o", "o">>
\* requiredModules entries of the requiring files.
PostReqs == {DotFoo, UpFoo, <<"f", "o", "o">>}
DotFooIndex == <<".", "/", "f", "o", "o", "/", "i", "n", "d", "e", "x">>
\* Ids a required file may have: a name, an id that reads as a relative path,
\* none.
PostIds(name) == {name, DotFooIndex, Absent}

Resource(path, id, reqs) ==
  [NewJS(path) EXCEPT !.id = id, !.isModule = TRUE, !.requiredModules = reqs]

Requirers(path, id, reqs) ==
  {<<>>} \cup {<<Resource(path, id, rs)>> : rs \in SeqsUpTo(reqs, MaxReqs)}
Required(path, name) ==
  {<<>>} \cup {<<Resource(path, id, <<>>)>> : id \in PostIds(name)}

PostBuilds ==
  {a \o b \o c \o d :
     a \in Requirers(BarJs, <<"B", "a", "r">>, PostReqs),
     b \in Requirers(DBarJs, <<"D">>, {DotFoo, UpFoo}),
     c \in Required(FooJs, <<"F">>),
     d \in Required(FooIndexJs, <<"F", "o", "o">>)}

\* ------------------------------------------------------------------- state

VARIABLES
  loader,     \* the JSLoader instance
  ing,        \* ing[c]: the state of loadFromSource call c
  turn,       \* the number of handlers the event loop has run
  ppStore,    \* the resources of the build, in the order the map holds them
  ppBefore,   \* ppStore when the latest postProcess began
  ppResources,\* the resources argument of the latest postProcess
  ppPending,  \* "idle", or "tick" while process.nextTick(callback) is due
  ppThrown,   \* the latest postProcess threw
  ppCbs,      \* the invocations of postProcess's callback
  ppRuns,     \* the number of postProcess calls
  ppCallTurn, \* the turn the latest postProcess ran in
  matched     \* <<>>, or the latest matchPath call: its argument and its result

ingVars == <<loader, ing, turn>>
ppVars == <<ppStore, ppBefore, ppResources, ppPending, ppThrown, ppCbs, ppRuns,
            ppCallTurn>>
vars == <<loader, ing, turn, ppStore, ppBefore, ppResources, ppPending, ppThrown,
          ppCbs, ppRuns, ppCallTurn, matched>>

NoBuild ==
  /\ ppStore = <<>>
  /\ ppBefore = <<>>
  /\ ppResources = <<>>
  /\ ppPending = "idle"
  /\ ppThrown = FALSE
  /\ ppCbs = <<>>
  /\ ppRuns = 0
  /\ ppCallTurn = 0

\* ----------------------------------------------------------------- actions

\* loadFromSource(path, configuration, sourceCode, callback), call c.
LoadFromSource(c, args) ==
  /\ ing[c].pending = "idle"
  /\ turn' = turn + 1
  /\ ing' = [ing EXCEPT ![c] = loadFromSource(loader, args, turn + 1)]
  /\ UNCHANGED <<loader, ppVars, matched>>

\* A 'data' event as it would be if output were one variable of the loader
\* instead of a variable of each extractJavelinSymbols call: what one
\* subprocess writes is collected for every call that waits for its own.
StdoutDataShared(c, d) ==
  /\ ing[c].pending = "child"
  /\ turn' = turn + 1
  /\ ing' = [k \in Calls |->
               IF k = c
               THEN [OnData(ing[k], d) EXCEPT !.printed = @ \o d, !.nData = @ + 1]
               ELSE IF ing[k].pending = "child" THEN OnData(ing[k], d) ELSE ing[k]]
  /\ UNCHANGED <<loader, ppVars, matched>>

\* The subprocess of call c writes d to its stdout, and the 'data' handler of
\* call c runs.
StdoutData(c, d) ==
  /\ ing[c].pending = "child"
  /\ turn' = turn + 1
  /\ ing' = [ing EXCEPT ![c] = [OnData(ing[c], d) EXCEPT !.printed = @ \o d,
                                                          !.nData = @ + 1]]
  /\ UNCHANGED <<loader, ppVars, matched>>

\* The subprocess of call c exits with the given code.
ChildExit(c, code) ==
  /\ ing[c].pending = "child"
  /\ turn' = turn + 1
  /\ ing' = [ing EXCEPT ![c] = OnChildExit(ing[c], code, turn + 1)]
  /\ UNCHANGED <<loader, ppVars, matched>>

\* zlib.deflate calls back for call c, with an error or with a buffer.
DeflateDone(c, err, size) ==
  /\ ing[c].pending = "deflate"
  /\ turn' = turn + 1
  /\ ing' = [ing EXCEPT ![c] = OnDeflate(ing[c], err, size, turn + 1)]
  /\ UNCHANGED <<loader, ppVars, matched>>

\* The next tick after a call c that ran no stage.
NextTick(c) ==
  /\ ing[c].pending = "tick"
  /\ turn' = turn + 1
  /\ ing' = [ing EXCEPT ![c] = OnTick(ing[c], turn + 1)]
  /\ UNCHANGED <<loader, ppVars, matched>>

\* postProcess(map, resources, callback): the loop, then process.nextTick(callback)
\* unless the loop threw.
PostProcess(resources) ==
  /\ ppPending = "idle"
  /\ ppRuns < MaxRuns
  /\ LET r == postProcessLoop(ppStore, resources) IN
     /\ ppStore' = r.store
     /\ ppThrown' = r.thrown
     /\ ppPending' = IF r.thrown THEN "idle" ELSE "tick"
  /\ ppBefore' = ppStore
  /\ ppResources' = resources
  /\ ppRuns' = ppRuns + 1
  /\ turn' = turn + 1
  /\ ppCallTurn' = turn + 1
  /\ UNCHANGED <<loader, ing, ppCbs, matched>>

\* The tick postProcess scheduled: callback().
PostProcessTick ==
  /\ ppPending = "tick"
  /\ ppPending' = "idle"
  /\ ppCbs' = Append(ppCbs, [err |-> FALSE, run |-> ppRuns, turn |-> turn + 1])
  /\ turn' = turn + 1
  /\ UNCHANGED <<loader, ing, ppStore, ppBefore, ppResources, ppThrown, ppRuns,
                 ppCallTurn, matched>>

\* ----------------------------------------------- specification: ingestion

Init ==
  /\ loader \in {JSLoader(o) : o \in LoaderOptions}
  /\ ing = [c \in Calls |-> IdleCall]
  /\ turn = 0
  /\ NoBuild
  /\ matched = <<>>

Load == ing[1].pending = "idle" /\ \E args \in MainArgs : LoadFromSource(1, args)
Data ==
  /\ ing[1].pending = "child"
  /\ ing[1].nData < MaxOutLines
  /\ \E d \in MainChunks : StdoutData(1, d)
Exit == \E code \in ExitCodes : ChildExit(1, code)
Deflate ==
  /\ ing[1].pending = "deflate"
  /\ \E err \in BOOLEAN, size \in Sizes : DeflateDone(1, err, size)
Tick == NextTick(1)

Next == Load \/ Data \/ Exit \/ Deflate \/ Tick

Spec == Init /\ [][Next]_vars

\* ------------------------------------------ specification: the symbol fold

InitJavelin ==
  /\ loader = JSLoader([networkSize |-> FALSE, extractJavelin |-> TRUE,
                        javelinsymbolsPath |-> Absent])
  /\ ing = [c \in Calls |-> IdleCall]
  /\ turn = 0
  /\ NoBuild
  /\ matched = <<>>

LoadJavelin == ing[1].pending = "idle" /\ \E args \in FoldArgs : LoadFromSource(1, args)
DataJavelin ==
  /\ ing[1].pending = "child"
  /\ ing[1].nData < MaxLines
  /\ \E d \in FoldChunks : StdoutData(1, d)
ExitJavelin == ChildExit(1, 0)

NextJavelin == LoadJavelin \/ DataJavelin \/ ExitJavelin

SpecJavelin == InitJavelin /\ [][NextJavelin]_vars

\* ------------------------------------------- specification: post-process

InitPost ==
  /\ loader = JSLoader([networkSize |-> FALSE, extractJavelin |-> FALSE,
                        javelinsymbolsPath |-> Absent])
  /\ ing = [c \in Calls |-> IdleCall]
  /\ turn = 0
  /\ ppStore \in PostBuilds
  /\ ppBefore = ppStore
  /\ ppResources = <<>>
  /\ ppPending = "idle"
  /\ ppThrown = FALSE
  /\ ppCbs = <<>>
  /\ ppRuns = 0
  /\ ppCallTurn = 0
  /\ matched = <<>>

\* The whole build is handed to postProcess, in the map's order.
AllResources == [i \in 1..Len(ppStore) |-> i]

RunPostProcess == PostProcess(AllResources)

NextPost == RunPostProcess \/ PostProcessTick

SpecPost == InitPost /\ [][NextPost]_vars


\* ------------------------------------------- the tags alone (SpecTags)

\* Tag/value pairs of docblocks, when the interpretation of the tags alone is
\* looked at: identity tags, a javelin tag with and without a value, css and
\* requires tags with no, one and several tokens, and a tag the loader does
\* not know.
TagPairs ==
  {<<"provides", <<"a">>>>,
   <<"provides", <<"p", " ", "q">>>>,
   <<"providesModule", <<"f", "o", "o">>>>,
   <<"providesModule", <<"b", "a", "r">>>>,
   <<"providesLegacy", <<"o", " ", "x">>>>,
   <<"javelin", <<>>>>,
   <<"javelin", <<"j", "v">>>>,
   <<"css", <<"a">>>>,
   <<"css", <<"b", " ", "c">>>>,
   <<"css", <<>>>>,
   <<"requires", <<"r">>>>,
   <<"requires", <<"s", " ", "\t", "t", " ">>>>,
   <<"author", <<"b", " ", "c">>>>}

TagArgs ==
  [path : {<<"a", ".", "j", "s">>}, configuration : {FALSE},
   props : SeqsUpTo(TagPairs, MaxTags), requires : {<<>>}]

\* A loader with no stage enabled.
PlainLoader ==
  JSLoader([networkSize |-> FALSE, extractJavelin |-> FALSE, javelinsymbolsPath |-> Absent])

InitTags ==
  /\ loader = PlainLoader
  /\ ing = [c \in Calls |-> IdleCall]
  /\ turn = 0
  /\ NoBuild
  /\ matched = <<>>

LoadTags ==
  /\ ing[1].pending = "idle"
  /\ \E args \in TagArgs : LoadFromSource(1, args)
TickTags == NextTick(1)

NextTags == LoadTags \/ TickTags
SpecTags == InitTags /\ [][NextTags]_vars

\* --------------------------------------------------- matchPath (SpecMatch)

\* The greatest length of a path handed to matchPath.
MaxPathLen == 4
PathChars == {".", "j", "s", "a", "/"}
MatchPaths == SeqsUpTo(PathChars, MaxPathLen)

\* matchPath is called with p.
MatchPath(p) ==
  /\ matched' = <<[path |-> p, result |-> matchPath(p)]>>
  /\ UNCHANGED <<ingVars, ppVars>>

InitMatch ==
  /\ loader = PlainLoader
  /\ ing = [c \in Calls |-> IdleCall]
  /\ turn = 0
  /\ NoBuild
  /\ matched = <<>>

NextMatch == \E p \in MatchPaths : MatchPath(p)
SpecMatch == InitMatch /\ [][NextMatch]_vars

\* ------------------------------------- two ingestions at once (SpecTwo)

\* Loaders that run the classification stage, with and without size
\* estimation.
TwoOptions ==
  [networkSize : BOOLEAN, extractJavelin : {TRUE}, javelinsymbolsPath : {Absent}]

TwoArgs ==
  [path : MainPaths, configuration : {TRUE},
   props : {<<>>, << <<"javelin", <<>>>> >>}, requires : {<<>>}]

TwoChunks == {<<"+", "a", "\n">>, <<"*", "m", "\n">>}

InitTwo ==
  /\ loader \in {JSLoader(o) : o \in TwoOptions}
  /\ ing = [c \in Calls |-> IdleCall]
  /\ turn = 0
  /\ NoBuild
  /\ matched = <<>>

LoadTwo ==
  \E c \in Calls :
    /\ ing[c].pending = "idle"
    /\ \E args \in TwoArgs : LoadFromSource(c, args)
DataTwo ==
  \E c \in Calls :
    /\ ing[c].pending = "child"
    /\ ing[c].nData < MaxOutLines
    /\ \E d \in TwoChunks : StdoutData(c, d)
ExitTwo == \E c \in Calls : ChildExit(c, 0)
DeflateTwo == \E c \in Calls, size \in Sizes : DeflateDone(c, FALSE, size)

NextTwo == LoadTwo \/ DataTwo \/ ExitTwo \/ DeflateTwo
SpecTwo == InitTwo /\ [][NextTwo]_vars
\* =================================================================== claims

\* The set of positions of event e in a log.
Pos(log, e) == {i \in 1..Len(log) : log[i] = e}

\* The docblock carries `option ignore` or `options ... ignore ...`.
IsIgnored(props) ==
  \E i \in 1..Len(props) :
    /\ props[i][1] \in {"option", "options"}
    /\ \E k \in 1..Len(SplitWs(props[i][2])) : SplitWs(props[i][2])[k] = IgnoreKey

\* The non-empty values of the jsx tags of a docblock, in its order.
RECURSIVE JsxValues(_)
JsxValues(props) ==
  IF props = <<>> THEN <<>>
  ELSE (IF Head(props)[1] = "jsx" /\ Head(props)[2] # <<>> THEN <<Head(props)[2]>> ELSE <<>>)
       \o JsxValues(Tail(props))

Called(c) == ing[c].pending # "idle"
\* Call c has returned and waits for nothing.
Quiet(c) == ing[c].pending = "none"

\* C1: every loadFromSource call invokes its callback exactly once, whatever
\* the subprocess and the compression report: never twice, and once by the
\* time the ingestion has nothing left to wait for.
C1_CallbackExactlyOnce ==
  \A c \in Calls :
    /\ Len(ing[c].cbs) <= 1
    /\ Quiet(c) => Len(ing[c].cbs) = 1

\* C2 as stated: with neither stage enabled the callback is never invoked in
\* the turn of the loadFromSource call, for every source text.
C2_AlwaysAsynchronous ==
  \A c \in Calls :
    loader.extractExtra = "tick" =>
      \A i \in 1..Len(ing[c].cbs) : ing[c].cbs[i].turn > ing[c].callTurn

\* C2 as amended: with neither stage enabled the callback is invoked on a
\* later turn exactly when the docblock does not set the ignore option; for an
\* ignored file it is invoked inside loadFromSource.
C2_AsynchronousUnlessIgnored ==
  \A c \in Calls :
    loader.extractExtra = "tick" =>
      /\ \A i \in 1..Len(ing[c].cbs) :
           IF IsIgnored(ing[c].args.props)
           THEN ing[c].cbs[i].turn = ing[c].callTurn
           ELSE ing[c].cbs[i].turn > ing[c].callTurn
      /\ Called(c) /\ ~IsIgnored(ing[c].args.props) /\ turn = ing[c].callTurn
           => ing[c].cbs = <<>> /\ ing[c].pending = "tick"

C2_Witness ==
  \E c \in Calls :
    /\ loader.extractExtra = "tick"
    /\ ~IsIgnored(ing[c].args.props)
    /\ Len(ing[c].cbs) = 1
    /\ ing[c].cbs[1].turn > ing[c].callTurn

\* C3: with both stages enabled, size estimation begins only after the
\* classification stage has completed (the symbol lists written, for a javelin
\* file), no classification event follows the start of size estimation, and
\* the caller's callback fires only after size estimation has completed.
C3_ClassificationBeforeSize ==
  \A c \in Calls :
    loader.extractExtra = "both" /\ ~IsIgnored(ing[c].args.props) =>
      LET log == ing[c].log IN
      /\ \A i \in Pos(log, "sizeStart") : \E j \in Pos(log, "classifyDone") : j < i
      /\ \A i \in Pos(log, "classifyStart") \cup Pos(log, "spawn") \cup Pos(log, "classifyDone") :
           \A j \in Pos(log, "sizeStart") : i < j
      /\ ing[c].pending = "child" => Pos(log, "sizeStart") = {}
      /\ Pos(log, "sizeStart") # {} /\ ing[c].js.isJavelin =>
           /\ ing[c].js.definedJavelinSymbols # Absent
           /\ ing[c].js.requiredJavelinSymbols # Absent
      /\ \A i \in 1..Len(ing[c].cbs) :
           /\ Pos(log, "sizeDone") # {}
           /\ ing[c].cbs[i].js.networkSize # <<>>
           /\ ing[c].cbs[i].turn > ing[c].callTurn

C3_Witness ==
  \E c \in Calls :
    /\ loader.extractExtra = "both"
    /\ ing[c].js.isJavelin
    /\ ing[c].log = <<"classifyStart", "spawn", "classifyDone", "sizeStart", "sizeDone">>
    /\ Len(ing[c].cbs) = 1

\* A stage of call c failed: the subprocess exited with a non-zero code, or the
\* compression routine reported an error.
StageFailed(c) ==
  \/ Pos(ing[c].log, "sizeFailed") # {}
  \/ ing[c].exit # <<>> /\ ing[c].exit[1].code # 0

\* C4: a failure of the classifier or of the compression routine never fails
\* or stalls the ingestion: once nothing is pending the callback has been
\* invoked, with the descriptor and no error, and the failed stage's fields are
\* absent.
C4_FailureStillCompletes ==
  \A c \in Calls :
    Quiet(c) /\ StageFailed(c) =>
      /\ ~ing[c].thrown
      /\ Len(ing[c].cbs) = 1
      /\ ~ing[c].cbs[1].err
      /\ Pos(ing[c].log, "sizeFailed") # {} => ing[c].cbs[1].js.networkSize = <<>>

\* What C5 says of an ignored file apart from requiredModules: no require
\* extraction, no id resolution by configuration, no stage.
IgnoredSkipsPipeline(c) ==
  /\ ing[c].pending = "none"
  /\ ing[c].extractCalls = 0
  /\ ing[c].resolveCalls = 0
  /\ ing[c].js.id # ResolveID(ing[c].js.path)
  /\ ing[c].log = <<>>
  /\ ing[c].exit = <<>>
  /\ ing[c].js.networkSize = <<>>
  /\ ing[c].js.definedJavelinSymbols = Absent
  /\ ing[c].js.requiredJavelinSymbols = Absent
  /\ Len(ing[c].cbs) = 1

\* C5 as stated: for a file whose docblock sets the ignore option, whatever its
\* other tags, nothing of the pipeline runs and requiredModules is the default
\* empty list.
C5_IgnoredHasNoRequiredModules ==
  \A c \in Calls :
    Called(c) /\ IsIgnored(ing[c].args.props) =>
      /\ IgnoredSkipsPipeline(c)
      /\ ing[c].cbs[1].js.requiredModules = <<>>

\* C5 as amended: nothing of the pipeline runs, and requiredModules holds the
\* non-empty values of the docblock's jsx tags and nothing else.
C5_IgnoredHasOnlyJsxModules ==
  \A c \in Calls :
    Called(c) /\ IsIgnored(ing[c].args.props) =>
      /\ IgnoredSkipsPipeline(c)
      /\ ing[c].cbs[1].js.requiredModules = JsxValues(ing[c].args.props)
      /\ ing[c].js.requiredModules = JsxValues(ing[c].args.props)

C5_Witness ==
  \E c \in Calls :
    /\ IsIgnored(ing[c].args.props)
    /\ ing[c].args.configuration
    /\ ing[c].args.requires # <<>>
    /\ JsxValues(ing[c].args.props) # <<>>
    /\ loader.extractExtra = "both"
    /\ Len(ing[c].cbs) = 1

\* ---- post-process

Ran == ppRuns >= 1
\* The resources handed to the latest postProcess.
Handed == {ppResources[n] : n \in 1..Len(ppResources)}
ExistsAt(p) == \E j \in 1..Len(ppStore) : ppStore[j].path = p
IdsAt(p) == {ppStore[j].id : j \in {n \in 1..Len(ppStore) : ppStore[n].path = p}}
IsRelative(req) == req # <<>> /\ req[1] = "."
\* join(dirname(owner.path), entry) for entry i of resource k as the pass found it.
RelativeOf(k, i) ==
  PathJoin(PathDirname(ppBefore[k].path), ppBefore[k].requiredModules[i])
Entries(k) == 1..Len(ppBefore[k].requiredModules)
FoundJs(k, i) == ExistsAt(RelativeOf(k, i) \o DotJs)
FoundIndex(k, i) == ExistsAt(RelativeOf(k, i) \o SlashIndexJs)

\* Entry i of resource k was rewritten as C6 says.
ResolvedAsStated(k, i) ==
  IsRelative(ppBefore[k].requiredModules[i]) =>
    /\ FoundJs(k, i) => ppStore[k].requiredModules[i] \in IdsAt(RelativeOf(k, i) \o DotJs)
    /\ ~FoundJs(k, i) /\ FoundIndex(k, i) =>
         ppStore[k].requiredModules[i] \in IdsAt(RelativeOf(k, i) \o SlashIndexJs)

\* C6: a postProcess pass replaces, at the same index, every entry beginning
\* with '.' by the id of the resource at <relative>.js, or else by the id of
\* the resource at <relative>/index.js; bar.js requiring ./foo with only
\* foo/index.js (id Foo) in the build ends with Foo at that position.
C6_RelativeEntriesResolved ==
  Ran /\ ~ppThrown =>
    \A k \in Handed :
      /\ Len(ppStore[k].requiredModules) = Len(ppBefore[k].requiredModules)
      /\ \A i \in Entries(k) :
           /\ ResolvedAsStated(k, i)
           /\ ( /\ ppBefore[k].path = BarJs
                /\ ppBefore[k].requiredModules[i] = DotFoo
                /\ ~ExistsAt(FooJs)
                /\ IdsAt(FooIndexJs) = {<<"F", "o", "o">>} )
              => ppStore[k].requiredModules[i] = <<"F", "o", "o">>

C6_Witness ==
  /\ Ran /\ ~ppThrown
  /\ \E k \in Handed :
       /\ ppBefore[k].path = BarJs
       /\ ppBefore[k].requiredModules = <<<<"f", "o", "o">>, DotFoo>>
       /\ ~ExistsAt(FooJs)
       /\ ppStore[k].requiredModules = <<<<"f", "o", "o">>, <<"F", "o", "o">>>>

\* Entry i of resource k begins with '.' and neither lookup finds a resource.
Unresolvable(k, i) ==
  /\ IsRelative(ppBefore[k].requiredModules[i])
  /\ ~FoundJs(k, i)
  /\ ~FoundIndex(k, i)

\* Every entry the latest pass was handed is a string.
AllStrings == \A k \in Handed : \A i \in Entries(k) : ppBefore[k].requiredModules[i] # Absent

\* C7: a relative entry that neither lookup resolves is left as it was; it
\* raises no error (a pass over string entries throws nothing), the other
\* entries are still resolved, and the callback is still scheduled and then
\* invoked without an error.
C7_UnresolvedLeftAlone ==
  Ran =>
    /\ \A k \in Handed : \A i \in Entries(k) :
         Unresolvable(k, i) => ppStore[k].requiredModules[i] = ppBefore[k].requiredModules[i]
    /\ AllStrings => ~ppThrown
    /\ ~ppThrown =>
         /\ \A k \in Handed : \A i \in Entries(k) : ResolvedAsStated(k, i)
         /\ \/ ppPending = "tick"
            \/ \E n \in 1..Len(ppCbs) : ppCbs[n].run = ppRuns /\ ~ppCbs[n].err

C7_Witness ==
  /\ Ran /\ ~ppThrown /\ ppPending = "idle"
  /\ \E n \in 1..Len(ppCbs) : ppCbs[n].run = ppRuns /\ ~ppCbs[n].err
  /\ \E k \in Handed :
       /\ Len(ppBefore[k].requiredModules) = 2
       /\ Unresolvable(k, 1)
       /\ ppStore[k].requiredModules[1] = ppBefore[k].requiredModules[1]
       /\ IsRelative(ppBefore[k].requiredModules[2])
       /\ FoundJs(k, 2)
       /\ ppStore[k].requiredModules[2] # ppBefore[k].requiredModules[2]

\* ---- the symbol fold

NoDuplicates(a) == \A i, j \in 1..Len(a) : a[i] = a[j] => i = j
\* The subprocess of call c has exited and its output has been folded.
Folded(c) == ing[c].exit # <<>>
\* The lines of the output of call c, each without its line-number suffix.
OutputLines(c) ==
  LET raw == SplitChar(ing[c].exit[1].output, "\n") IN
  [i \in 1..Len(raw) |-> StripLineNumber(raw[i])]
DotsOf(l) == {i \in 1..Len(l) : l[i] = "."}
Least(S) == CHOOSE i \in S : \A j \in S : i <= j
Greatest(S) == CHOOSE i \in S : \A j \in S : j <= i
\* The text of line l after its first character and before its first '.'.
UpToFirstDot(l) ==
  SubSeq(l, 2, IF DotsOf(l) = {} THEN Len(l) ELSE Least(DotsOf(l)) - 1)
\* The text of line l between its first '.' and its second, 'undefined' when
\* it has no '.'.
BetweenDots(l) ==
  IF DotsOf(l) = {} THEN UndefinedStr
  ELSE LET first == Least(DotsOf(l))
           later == {j \in DotsOf(l) : j > first}
       IN SubSeq(l, first + 1, IF later = {} THEN Len(l) ELSE Least(later) - 1)

\* C8: after the fold no symbol is both defined and required, and neither
\* list holds a symbol twice.
C8_DefinedAndRequiredDisjoint ==
  \A c \in Calls :
    Folded(c) =>
      /\ \A i \in 1..Len(ing[c].js.definedJavelinSymbols) :
           ~Has(ing[c].js.requiredJavelinSymbols, ing[c].js.definedJavelinSymbols[i])
      /\ NoDuplicates(ing[c].js.definedJavelinSymbols)
      /\ NoDuplicates(ing[c].js.requiredJavelinSymbols)

JXWidget == JXPrefix \o <<"W", "i", "d", "g", "e", "t">>
BehaviorMenu == BehaviorPrefix \o <<"m", "e", "n", "u">>
JXOther == JXPrefix \o <<"O", "t", "h", "e", "r">>
JXMethod == JXPrefix \o <<"m", "e", "t", "h", "o", "d">>

\* C9 as stated: a '?' line refers to JX. plus the text after '?' up to the
\* first '.', which ends up required unless defined; +Widget, ?Other.method,
\* *menu yield JX.Widget and javelin-behavior-menu defined and JX.install,
\* JX.behavior and JX.Other required.
C9_QueryNamesTextBeforeFirstDot ==
  \A c \in Calls :
    Folded(c) =>
      /\ \A i \in 1..Len(OutputLines(c)) :
           LET l == OutputLines(c)[i] IN
           l # <<>> /\ l[1] = "?" =>
             \/ Has(ing[c].js.requiredJavelinSymbols, JXPrefix \o UpToFirstDot(l))
             \/ Has(ing[c].js.definedJavelinSymbols, JXPrefix \o UpToFirstDot(l))
      /\ ing[c].exit[1].output = ExampleOutput =>
           /\ Has(ing[c].js.definedJavelinSymbols, JXWidget)
           /\ Has(ing[c].js.definedJavelinSymbols, BehaviorMenu)
           /\ Has(ing[c].js.requiredJavelinSymbols, JXInstall)
           /\ Has(ing[c].js.requiredJavelinSymbols, JXBehavior)
           /\ Has(ing[c].js.requiredJavelinSymbols, JXOther)

\* C9 as amended: a '?' line refers to JX. plus the text between the first
\* and the second '.' of the line (JX.undefined when the line has no '.'),
\* which ends up required unless defined; +Widget, ?Other.method, *menu yield
\* JX.Widget and javelin-behavior-menu defined and JX.install, JX.method and
\* JX.behavior required.
C9_QueryNamesTextAfterFirstDot ==
  \A c \in Calls :
    Folded(c) =>
      /\ \A i \in 1..Len(OutputLines(c)) :
           LET l == OutputLines(c)[i] IN
           l # <<>> /\ l[1] = "?" =>
             /\ \/ Has(ing[c].js.requiredJavelinSymbols, JXPrefix \o BetweenDots(l))
                \/ Has(ing[c].js.definedJavelinSymbols, JXPrefix \o BetweenDots(l))
             /\ (Len(OutputLines(c)) = 2 /\ OutputLines(c)[2] = <<>>) =>
                  /\ ing[c].js.requiredJavelinSymbols = <<JXPrefix \o BetweenDots(l)>>
                  /\ ing[c].js.definedJavelinSymbols = <<>>
      /\ ing[c].exit[1].output = ExampleOutput =>
           /\ ing[c].js.definedJavelinSymbols = <<JXWidget, BehaviorMenu>>
           /\ ing[c].js.requiredJavelinSymbols = <<JXInstall, JXMethod, JXBehavior>>

C9_Witness ==
  \E c \in Calls :
    /\ Folded(c)
    /\ ing[c].exit[1].output = ExampleOutput
    /\ Has(ing[c].js.requiredJavelinSymbols, JXMethod)
    /\ Len(ing[c].cbs) = 1

\* The lines of call c's output that begin with '+' or '*'.
Definers(c) ==
  {i \in 1..Len(OutputLines(c)) :
     OutputLines(c)[i] # <<>> /\ OutputLines(c)[i][1] \in {"+", "*"}}

\* C10: after the classification of a javelin file the id is the symbol of
\* the last '+' or '*' line of the output, whatever a tag or the configuration
\* made it before; with no such line the id is what it was.
C10_LastDefinerSetsId ==
  \A c \in Calls :
    Folded(c) /\ ing[c].exit[1].before.isJavelin =>
      IF Definers(c) = {}
      THEN ing[c].js.id = ing[c].exit[1].before.id
      ELSE LET l == OutputLines(c)[Greatest(Definers(c))] IN
           ing[c].js.id =
             (IF l[1] = "+" THEN JXPrefix ELSE BehaviorPrefix) \o SubSeq(l, 2, Len(l))

C10_Witness ==
  \E c \in Calls :
    /\ Folded(c)
    /\ ing[c].exit[1].before.isJavelin
    /\ ing[c].exit[1].before.id = <<"m">>
    /\ Cardinality(Definers(c)) = 2
    /\ OutputLines(c)[1][1] = "+"
    /\ OutputLines(c)[2][1] = "*"
    /\ ing[c].js.id = BehaviorPrefix \o <<"a">>
    /\ Len(ing[c].cbs) = 1 /\ ing[c].cbs[1].js.id = ing[c].js.id


\* ---- the classification stage on a file that is not javelin

\* The docblock carries a tag of the given name.
HasTag(props, name) == \E i \in 1..Len(props) : props[i][1] = name

\* The loader of call c runs the classification stage, and the file of call c
\* is neither ignored nor flagged javelin.
ClassifiesPlainFile(c) ==
  /\ Called(c)
  /\ loader.extractExtra \in {"both", "javelin"}
  /\ ~IsIgnored(ing[c].args.props)
  /\ ~HasTag(ing[c].args.props, "javelin")

\* C11: the classification stage, run on a descriptor that is not flagged
\* javelin, starts no subprocess, changes no field of the descriptor (the
\* symbol lists stay absent, the id stays what it was) and invokes its
\* completion at once with that descriptor: the caller's callback in the turn
\* of the call, or size estimation, which alone then writes networkSize.
C11_PlainFileSkipsClassification ==
  \A c \in Calls :
    ClassifiesPlainFile(c) =>
      LET m == ing[c]
          handed == m.atExtra[1]
      IN
      /\ ~handed.isJavelin
      /\ Pos(m.log, "spawn") = {}
      /\ m.exit = <<>> /\ m.nData = 0 /\ m.pending # "child"
      /\ m.js.definedJavelinSymbols = Absent
      /\ m.js.requiredJavelinSymbols = Absent
      /\ m.js.id = handed.id
      /\ [m.js EXCEPT !.networkSize = <<>>] = handed
      /\ loader.extractExtra = "javelin" =>
           /\ m.log = <<"classifyStart", "classifyDone">>
           /\ m.pending = "none"
           /\ m.js = handed
           /\ Len(m.cbs) = 1
           /\ m.cbs[1] = [err |-> FALSE, js |-> handed, turn |-> m.callTurn]
      /\ loader.extractExtra = "both" =>
           /\ SubSeq(m.log, 1, 3) = <<"classifyStart", "classifyDone", "sizeStart">>
           /\ m.pending = "deflate" => m.js = handed /\ m.cbs = <<>>

C11_Witness ==
  \E c \in Calls :
    /\ ClassifiesPlainFile(c)
    /\ loader.extractExtra = "javelin"
    /\ ing[c].args.props # <<>>
    /\ ing[c].js.id # Absent
    /\ Len(ing[c].cbs) = 1
    /\ ing[c].cbs[1].turn = ing[c].callTurn

\* ---- the interpretation of the tags

\* The tag names parseDocblockOptions knows.
KnownTags ==
  {"provides", "providesModule", "providesLegacy", "css", "requires", "javelin",
   "polyfill", "runWhenReady_DEPRECATED", "jsx", "permanent", "nopackage",
   "option", "options"}

\* The positions of the tags of a docblock whose name is among names.
TagsAt(props, names) == {i \in 1..Len(props) : props[i][1] \in names}

\* The text of a value before its first whitespace character.
FirstPiece(value) ==
  LET ws == {i \in 1..Len(value) : IsWs(value[i])} IN
  IF ws = {} THEN value ELSE SubSeq(value, 1, Least(ws) - 1)

\* The id the last tag among names gives, the names being identity tags: the
\* first token of its value, behind legacy: for providesLegacy; absent when
\* the docblock has no such tag.
IdOfLastTag(props, names) ==
  IF TagsAt(props, names) = {} THEN Absent
  ELSE LET p == props[Greatest(TagsAt(props, names))] IN
       IF p[1] = "providesLegacy" THEN LegacyPrefix \o FirstPiece(p[2])
       ELSE FirstPiece(p[2])

\* The tags of a docblock that parseDocblockOptions knows, in its order.
RECURSIVE KnownOnly(_)
KnownOnly(props) ==
  IF props = <<>> THEN <<>>
  ELSE (IF Head(props)[1] \in KnownTags THEN <<Head(props)>> ELSE <<>>)
       \o KnownOnly(Tail(props))

ProvidesModuleFoo == <<"providesModule", <<"f", "o", "o">>>>
ProvidesModuleBar == <<"providesModule", <<"b", "a", "r">>>>

\* C12 as stated: after the tags are interpreted the id is the one the last
\* tag among provides, providesModule, providesLegacy and javelin gives
\* (providesModule foo then providesModule bar yields bar), and tags the loader
\* does not know change nothing.
C12_LastIdentityTagOrJavelinWins ==
  \A c \in Calls :
    Called(c) =>
      /\ ing[c].js.id =
           IdOfLastTag(ing[c].args.props,
                       {"provides", "providesModule", "providesLegacy", "javelin"})
      /\ ing[c].args.props = <<ProvidesModuleFoo, ProvidesModuleBar>> =>
           ing[c].js.id = <<"b", "a", "r">>
      /\ ing[c].js = parseDocblockOptions(NewJS(ing[c].args.path), KnownOnly(ing[c].args.props))

\* C12 as amended: after the tags are interpreted the id is the one the last
\* tag among provides, providesModule and providesLegacy gives, the text of its
\* value before the first whitespace, behind legacy: for providesLegacy
\* (providesModule foo then providesModule bar yields bar); a javelin tag sets
\* no id, whatever its value and its place; tags the loader does not know
\* change nothing.
C12_LastIdentityTagWins ==
  \A c \in Calls :
    Called(c) =>
      /\ ing[c].js.id =
           IdOfLastTag(ing[c].args.props, {"provides", "providesModule", "providesLegacy"})
      /\ ing[c].args.props = <<ProvidesModuleFoo, ProvidesModuleBar>> =>
           ing[c].js.id = <<"b", "a", "r">>
      /\ ing[c].js = parseDocblockOptions(NewJS(ing[c].args.path), KnownOnly(ing[c].args.props))

C12_Witness ==
  \E c \in Calls :
    /\ Len(ing[c].cbs) = 1
    /\ ing[c].args.props = <<ProvidesModuleFoo, <<"javelin", <<"j", "v">>>>>>
    /\ ing[c].cbs[1].js.id = <<"f", "o", "o">>
    /\ ing[c].cbs[1].js.isJavelin

\* ---- the css and requires tags

\* The positions where a run of characters that are not whitespace begins.
RunStarts(v) == {i \in 1..Len(v) : ~IsWs(v[i]) /\ (i = 1 \/ IsWs(v[i - 1]))}
\* The run that begins at i.
RunAt(v, i) ==
  SubSeq(v, i, Least({j \in i..Len(v) : j = Len(v) \/ IsWs(v[j + 1])}))
\* The k-th smallest element of a set of numbers.
Nth(S, k) == CHOOSE s \in S : Cardinality({x \in S : x <= s}) = k
\* The whitespace-separated tokens of a value: its runs of characters that are
\* not whitespace, with an empty token before whitespace that begins the value
\* and after whitespace that ends it; an empty value is one empty token.
Pieces(v) ==
  (IF v = <<>> \/ IsWs(v[1]) THEN << <<>> >> ELSE <<>>)
    \o [k \in 1..Cardinality(RunStarts(v)) |-> RunAt(v, Nth(RunStarts(v), k))]
    \o (IF v # <<>> /\ IsWs(v[Len(v)]) THEN << <<>> >> ELSE <<>>)

\* The tokens of the values of the tags of one name, in docblock order.
RECURSIVE PiecesOfTags(_, _)
PiecesOfTags(props, name) ==
  IF props = <<>> THEN <<>>
  ELSE (IF Head(props)[1] = name THEN Pieces(Head(props)[2]) ELSE <<>>)
       \o PiecesOfTags(Tail(props), name)

CssA == <<"css", <<"a">>>>
CssBC == <<"css", <<"b", " ", "c">>>>

\* C13: requiredCSS is the concatenation, in docblock order, of the
\* whitespace-separated tokens of the values of the css tags (css a then
\* css b c yields a, b, c; a later tag never replaces what an earlier one
\* gave), requiredLegacyComponents is the same over the requires tags, and no
\* other tag changes either list.
C13_CssAndRequiresAccumulate ==
  \A c \in Calls :
    Called(c) =>
      /\ ing[c].js.requiredCSS = PiecesOfTags(ing[c].args.props, "css")
      /\ ing[c].js.requiredLegacyComponents = PiecesOfTags(ing[c].args.props, "requires")
      /\ ing[c].args.props = <<CssA, CssBC>> =>
           ing[c].js.requiredCSS = << <<"a">>, <<"b">>, <<"c">> >>
      /\ TagsAt(ing[c].args.props, {"css"}) = {} => ing[c].js.requiredCSS = <<>>
      /\ TagsAt(ing[c].args.props, {"requires"}) = {} =>
           ing[c].js.requiredLegacyComponents = <<>>

C13_Witness ==
  \E c \in Calls :
    /\ Len(ing[c].cbs) = 1
    /\ ing[c].args.props = <<CssA, CssBC>>
    /\ ing[c].cbs[1].js.requiredCSS = << <<"a">>, <<"b">>, <<"c">> >>

\* ---- a file without a docblock

\* The callback of call c has fired for a file without a docblock.
FinishedWithoutDocblock(c) == Len(ing[c].cbs) = 1 /\ ing[c].args.props = <<>>

\* C14 as stated: for a source text without a docblock, with or without
\* require calls in it, the finished descriptor has requiredModules,
\* requiredCSS and requiredLegacyComponents empty and no option, and isModule
\* is true exactly when a configuration was supplied.
C14_NoDocblockNoDependencies ==
  \A c \in Calls :
    FinishedWithoutDocblock(c) =>
      LET js == ing[c].cbs[1].js IN
      /\ js.requiredModules = <<>>
      /\ js.requiredCSS = <<>>
      /\ js.requiredLegacyComponents = <<>>
      /\ js.options = <<>>
      /\ js.isModule = ing[c].args.configuration

\* C14 as amended: for a source text without a docblock the finished
\* descriptor has requiredCSS and requiredLegacyComponents empty and no option,
\* isModule is true exactly when a configuration was supplied, and
\* requiredModules is the require calls of the text, in their order, when a
\* configuration was supplied and empty when none was.
C14_NoDocblockOnlyRequireCalls ==
  \A c \in Calls :
    FinishedWithoutDocblock(c) =>
      LET js == ing[c].cbs[1].js IN
      /\ js.requiredModules =
           IF ing[c].args.configuration THEN ing[c].args.requires ELSE <<>>
      /\ js.requiredCSS = <<>>
      /\ js.requiredLegacyComponents = <<>>
      /\ js.options = <<>>
      /\ js.isModule = ing[c].args.configuration

C14_Witness ==
  \E c \in Calls :
    /\ FinishedWithoutDocblock(c)
    /\ ing[c].args.configuration
    /\ ing[c].args.requires # <<>>
    /\ ing[c].cbs[1].js.requiredModules = ing[c].args.requires

\* ---- matchPath

\* The path ends in .js
EndsInDotJs(p) == Len(p) >= 3 /\ SubSeq(p, Len(p) - 2, Len(p)) = <<".", "j", "s">>

\* C15: matchPath answers true only for a path that ends in .js, and false for
\* every path that does not, a path of fewer than three characters included.
C15_MatchesOnlyDotJs ==
  \A i \in 1..Len(matched) : matched[i].result <=> EndsInDotJs(matched[i].path)

\* ---- the id the configuration resolves

IdentityTags == {"provides", "providesModule", "providesLegacy"}

\* The id the tags of call c give: that of the last identity tag.
TagId(c) == IdOfLastTag(ing[c].args.props, IdentityTags)
\* A tag of call c has set the id: the id the tags give is a non-empty string.
TagSetId(c) == TagId(c) # Absent /\ TagId(c) # <<>>

\* The file of call c is a module once its tags are interpreted: the last tag
\* among provides, providesModule, providesLegacy and javelin is not provides,
\* or, without such a tag, a configuration was supplied.
IsModuleAfterTags(c) ==
  LET props == ing[c].args.props
      at == TagsAt(props, IdentityTags \cup {"javelin"})
  IN IF at = {} THEN ing[c].args.configuration
     ELSE props[Greatest(at)][1] # "provides"

\* loadFromSource has handed the descriptor of call c to the stages (the file
\* is not ignored).
Ingested(c) == ing[c].atExtra # <<>>

\* C16: in an ingestion that is not ignored, when no tag has set the id and
\* the file is a module and a configuration was supplied, the id is the one the
\* configuration resolves from the path; when a tag has set the id the
\* configuration does not replace it; without a configuration no id is ever
\* resolved from the path.
C16_ConfigurationResolvesMissingId ==
  \A c \in Calls :
    Ingested(c) =>
      LET handed == ing[c].atExtra[1]
          args == ing[c].args
      IN
      /\ ~TagSetId(c) /\ IsModuleAfterTags(c) /\ args.configuration =>
           handed.id = ResolveID(args.path) /\ ing[c].resolveCalls = 1
      /\ TagSetId(c) => handed.id = TagId(c) /\ ing[c].resolveCalls = 0
      /\ ~args.configuration => handed.id = TagId(c) /\ ing[c].resolveCalls = 0
      /\ ~IsModuleAfterTags(c) => handed.id = TagId(c) /\ ing[c].resolveCalls = 0

C16_Witness ==
  \E c \in Calls :
    /\ Ingested(c)
    /\ Len(ing[c].cbs) = 1
    /\ ing[c].args.configuration
    /\ TagSetId(c)
    /\ IsModuleAfterTags(c)
    /\ ing[c].cbs[1].js.id = <<"m">>

\* ---- the require calls

\* C17 as stated: in every ingestion that is not ignored the require calls are
\* extracted, and the finished requiredModules is the non-empty jsx values in
\* docblock order followed by the extracted require calls in their order,
\* duplicates kept, whether or not the file is a module and whether or not a
\* configuration was supplied.
C17_RequireCallsAlwaysExtracted ==
  \A c \in Calls :
    Ingested(c) =>
      /\ ing[c].extractCalls = 1
      /\ ing[c].js.requiredModules = JsxValues(ing[c].args.props) \o ing[c].args.requires
      /\ \A i \in 1..Len(ing[c].cbs) :
           ing[c].cbs[i].js.requiredModules =
             JsxValues(ing[c].args.props) \o ing[c].args.requires

\* C17 as amended: in an ingestion that is not ignored the require calls are
\* extracted exactly when the file is a module once its tags are interpreted,
\* and then the finished requiredModules is the non-empty jsx values in
\* docblock order followed by the extracted require calls in their order,
\* duplicates kept; for a file that is not a module (its last identity tag is
\* provides, or it has no identity or javelin tag and no configuration was
\* supplied) nothing is extracted and requiredModules is the jsx values alone.
C17_RequireCallsExtractedForModules ==
  \A c \in Calls :
    Ingested(c) =>
      LET stated == IF IsModuleAfterTags(c)
                    THEN JsxValues(ing[c].args.props) \o ing[c].args.requires
                    ELSE JsxValues(ing[c].args.props)
      IN
      /\ ing[c].extractCalls = IF IsModuleAfterTags(c) THEN 1 ELSE 0
      /\ ing[c].js.requiredModules = stated
      /\ \A i \in 1..Len(ing[c].cbs) : ing[c].cbs[i].js.requiredModules = stated

C17_Witness ==
  \E c \in Calls :
    /\ Ingested(c)
    /\ Len(ing[c].cbs) = 1
    /\ IsModuleAfterTags(c)
    /\ ing[c].cbs[1].js.requiredModules = << <<"D">>, <<".", "/", "b">>, <<"D">> >>

\* ---- two ingestions on one loader

\* The descriptor the call c produces when it runs alone on the loader, its
\* subprocess writing what the subprocess of call c has written.
AloneJs(c) ==
  LET m0 == loadFromSource(loader, ing[c].args, 0)
      classified == IF m0.pending = "child"
                    THEN JavelinSymbols(m0.js, ing[c].printed) ELSE m0.js
  IN IF loader.extractExtra \in {"both", "size"} /\ m0.atExtra # <<>>
     THEN [classified EXCEPT !.networkSize = ing[c].js.networkSize]
     ELSE classified

\* What holds of call c in every state.
OwnDescriptor(c) ==
  /\ ing[c].js.path = ing[c].args.path
  /\ ing[c].output = ing[c].printed
  /\ ing[c].exit # <<>> => ing[c].exit[1].output = ing[c].printed
  /\ Len(ing[c].cbs) <= 1
  /\ \A i \in 1..Len(ing[c].cbs) :
       /\ ing[c].cbs[i].js = ing[c].js
       /\ ing[c].cbs[i].js = AloneJs(c)
       /\ ing[c].cbs[i].js.networkSize \in {<<>>} \cup {<<s>> : s \in Sizes}

\* C18: two ingestions on one loader, interleaved in any way, share no state:
\* the callback of each receives the descriptor of its own call, which is the
\* descriptor the call produces alone (what the subprocess of the other call
\* writes is never folded into it), and no step of an ingestion changes the
\* loader and the stage sequence it composed.
C18_IngestionsAreIsolated ==
  /\ [](\A c \in Calls : Called(c) => OwnDescriptor(c))
  /\ [][loader' = loader]_vars

C18_Witness ==
  /\ \A c \in Calls : Len(ing[c].cbs) = 1 /\ ing[c].exit # <<>>
  /\ ing[1].callTurn < ing[2].callTurn
  /\ ing[2].callTurn < ing[1].cbs[1].turn
  /\ ing[1].printed # ing[2].printed
  /\ ing[1].cbs[1].js.id # ing[2].cbs[1].js.id

\* ---- what a postProcess pass leaves alone

\* The invocations of the callback of the pass numbered r.
CallbacksOf(r) == {n \in 1..Len(ppCbs) : ppCbs[n].run = r}

\* What the latest pass left alone; ppBefore is the build as the pass found it.
PassFrame ==
  /\ Len(ppStore) = Len(ppBefore)
  /\ \A k \in 1..Len(ppStore) :
       /\ Len(ppStore[k].requiredModules) = Len(ppBefore[k].requiredModules)
       /\ [ppStore[k] EXCEPT !.requiredModules = ppBefore[k].requiredModules] = ppBefore[k]
       /\ \A i \in Entries(k) :
            /\ ~IsRelative(ppBefore[k].requiredModules[i]) =>
                 ppStore[k].requiredModules[i] = ppBefore[k].requiredModules[i]
            /\ ppStore[k].requiredModules[i] # ppBefore[k].requiredModules[i] =>
                 /\ k \in Handed
                 /\ IsRelative(ppBefore[k].requiredModules[i])
                 /\ FoundJs(k, i) \/ FoundIndex(k, i)

\* The callback of the latest pass and of those before it: never more than
\* once for a pass, after the turn of the pass, and once when the pass has
\* returned without throwing and its tick has run.
PassCallback ==
  /\ \A r \in 1..ppRuns : Cardinality(CallbacksOf(r)) <= 1
  /\ \A n \in CallbacksOf(ppRuns) : ppCbs[n].turn > ppCallTurn /\ ~ppCbs[n].err
  /\ ppPending = "tick" => CallbacksOf(ppRuns) = {}
  /\ ppPending = "idle" /\ ~ppThrown => Cardinality(CallbacksOf(ppRuns)) = 1

\* C19: a postProcess pass changes nothing but relative entries it resolves:
\* every requiredModules list keeps its length, an entry that does not begin
\* with '.' stays what it was at its index, no other field of a resource
\* changes, and the build and its paths stay what they were; the entries are
\* rewritten in the step of the pass and none in the tick that follows, and
\* the callback of a pass that returns fires once, in a later turn.
C19_PassChangesOnlyResolvedEntries ==
  /\ [](Ran => PassFrame /\ PassCallback)
  /\ [][ppStore' # ppStore => ppRuns' = ppRuns + 1 /\ ppCbs' = ppCbs]_vars

C19_Witness ==
  /\ Ran
  /\ ppPending = "idle" /\ ~ppThrown
  /\ Cardinality(CallbacksOf(ppRuns)) = 1
  /\ \E k \in Handed :
       /\ \E i \in Entries(k) : ppStore[k].requiredModules[i] # ppBefore[k].requiredModules[i]
       /\ \E i \in Entries(k) :
            /\ ~IsRelative(ppBefore[k].requiredModules[i])
            /\ ExistsAt(ppBefore[k].requiredModules[i] \o DotJs)

\* ---- a second postProcess pass

\* No resource of the build has an id that begins with '.'.
NoRelativeIds == \A k \in 1..Len(ppStore) : ppStore[k].id = Absent \/ ~IsRelative(ppStore[k].id)

\* C20: over a build that does not change and in which no id begins with '.',
\* a postProcess pass that follows another leaves every requiredModules list
\* as the pass before it left it.
C20_SecondPassChangesNothing ==
  ppRuns >= 2 /\ NoRelativeIds =>
    \A k \in 1..Len(ppStore) : ppStore[k].requiredModules = ppBefore[k].requiredModules

C20_Witness ==
  /\ ppRuns = 2
  /\ NoRelativeIds
  /\ ppPending = "idle" /\ ~ppThrown
  /\ Len(ppCbs) = 2
  /\ \E k \in Handed :
       /\ ppStore[k].requiredModules = << <<"F">>, UpFoo >>
       /\ ppStore[k].path = BarJs
====
